---------------------------- MODULE Spec2Model ----------------------------
(***************************************************************************)
(* Model of the recipe submission page in its two revisions,               *)
(* cookbook_site.py and streamlit_cookbook.py.  One page run (one          *)
(* execution of the script from top to bottom) is one action.  The         *)
(* Record Store, the Blob Store and the OCR engine are collaborators whose *)
(* outcomes are chosen nondeterministically.                               *)
(*                                                                         *)
(* Python values: a str is a TLA+ string, None is the empty tuple <<>> and *)
(* an Optional value x that is present is the one-element tuple <<x>>.     *)
(***************************************************************************)
EXTENDS Naturals, Sequences, FiniteSets, TLC

VARIABLES
    revision,            \* which script is deployed
    tesseract_installed, \* environment: is the tesseract binary on the PATH
    recipes,             \* Record Store: rows of the table "recipes", in insertion order
    blobs,               \* Blob Store: the objects of the bucket
    uuid_next,           \* source of uuid.uuid4(): the next fresh identifier
    editor,              \* the editable text area now on screen: None, or <<[key, value,
                         \* notes, committed]>> with the notes and the row of its run
    runs,                \* number of page runs so far
    submitted,           \* last run: the form submitted, "none", "text" or "image"
    inputs,              \* last run: the widget values the run read
    locals,              \* last run: the handler's local variables
    calls,               \* last run: the collaborator calls issued, in order
    msgs,                \* last run: the messages shown to the user, in order
    halted               \* last run: st.stop() ended the run early

vars == <<revision, tesseract_installed, recipes, blobs, uuid_next, editor, runs,
          submitted, inputs, locals, calls, msgs, halted>>

-----------------------------------------------------------------------------
\* Bounds of the model
MaxRuns == 2

\* Python's None and a present Optional value
None == <<>>
Some(x) == <<x>>

Revisions == {"cookbook_site", "streamlit_cookbook"}

\* Widget values a user may enter
Names == {"", "Pie"}
Descriptions == {"", "tasty"}
IngredientTexts == {"", "2 eggs"}
InstructionTexts == {"", "mix"}
EditTexts == {"", "3 eggs"}

\* Uploaded files: the file name as its "."-separated parts, and the bytes
PhotoJPG == [parts |-> <<"photo", "JPG">>, bytes |-> "bytes1"]
FileBmp == [parts |-> <<"file", "bmp">>, bytes |-> "bytes2"]

\* The image form as a user may fill it in
ImageForms ==
    { [name_img |-> "", short_desc_img |-> "", notes |-> "", uploaded_img |-> None],
      [name_img |-> "Pie", short_desc_img |-> "tasty", notes |-> "salt to taste",
       uploaded_img |-> None],
      [name_img |-> "", short_desc_img |-> "", notes |-> "",
       uploaded_img |-> Some(PhotoJPG)],
      [name_img |-> "Pie", short_desc_img |-> "tasty", notes |-> "salt to taste",
       uploaded_img |-> Some(FileBmp)] }

\* What pytesseract.image_to_string may do: raise, or return raw text
\* (a sequence of characters).
RawTexts == { <<" ", "\n">>, <<" ", "2", " ", "e", "g", "g", "s", "\n">> }
OcrOutcomes == {[raises |-> TRUE, text |-> <<>>]}
                 \cup {[raises |-> FALSE, text |-> t] : t \in RawTexts}

\* What storage upload may do: succeed, raise, or return a dict with "error"
UploadOutcomes == {"ok", "raise", "error_dict"}
\* What table insert / select execute() may do: succeed, raise, or return a
\* response whose .error is set
DbOutcomes == {"ok", "raise", "error_attr"}

-----------------------------------------------------------------------------
\* str helpers

Whitespace == {" ", "\n", "\t", "\r"}

\* str.strip() on a sequence of characters
RECURSIVE lstrip(_)
lstrip(cs) == IF cs # <<>> /\ Head(cs) \in Whitespace THEN lstrip(Tail(cs)) ELSE cs

RECURSIVE rstrip(_)
rstrip(cs) ==
    IF cs # <<>> /\ cs[Len(cs)] \in Whitespace
    THEN rstrip(SubSeq(cs, 1, Len(cs) - 1))
    ELSE cs

strip(cs) == rstrip(lstrip(cs))

\* the str made of a sequence of characters
RECURSIVE Join(_)
Join(cs) == IF cs = <<>> THEN "" ELSE Head(cs) \o Join(Tail(cs))

\* str.lower() on the file extensions that occur
lower(s) ==
    CASE s = "JPG" -> "jpg"
      [] s = "PNG" -> "png"
      [] s = "JPEG" -> "jpeg"
      [] OTHER -> s

\* `s or None`
or_None(s) == IF s = "" THEN None ELSE Some(s)

\* `s or default`
or_default(s, default) == IF s = "" THEN default ELSE s

-----------------------------------------------------------------------------
\* Text submission: the pure parts of the handler

\* the validation with `and` for `or`
text_invalid_mut(name, ingredients, instructions) ==
    name = "" /\ (ingredients = "" /\ instructions = "")

\* `not name or (not ingredients and not instructions)`
text_invalid(name, ingredients, instructions) ==
    name = "" \/ (ingredients = "" /\ instructions = "")

\* the body without the blank line between its two sections
full_text_mut(ingredients, instructions) ==
    "Ingredients:\n" \o ingredients \o "\nInstructions:\n" \o instructions

\* f"Ingredients:\n{ingredients}\n\nInstructions:\n{instructions}"
full_text(ingredients, instructions) ==
    "Ingredients:\n" \o ingredients \o "\n\nInstructions:\n" \o instructions

\* the dict `data` that save_recipe_to_supabase builds from its arguments
recipe_data(name, description, text_body, image_url) ==
    [name |-> name, description |-> description, text |-> text_body,
     image_url |-> image_url]

\* the arguments of the text handler's save_recipe_to_supabase call
text_recipe(name, short_desc, ingredients, instructions) ==
    recipe_data(name, or_None(short_desc),
                Some(full_text(ingredients, instructions)), None)

\* save_recipe_to_supabase without the look at response.error
save_raises_mut(outcome) == outcome = "raise"

\* save_recipe_to_supabase raises when execute() raises or the response's
\* .error is set; otherwise it returns the response
save_raises(outcome) == outcome = "raise" \/ outcome = "error_attr"

\* The Record Store's insert: on success the row is added, with a
\* server-assigned id and created_at; on failure the table is unchanged.
table_insert(table, data, outcome) ==
    IF outcome = "ok"
    THEN Append(table, [id |-> Len(table) + 1, created_at |-> Len(table) + 1,
                        name |-> data.name, description |-> data.description,
                        text |-> data.text, image_url |-> data.image_url])
    ELSE table

-----------------------------------------------------------------------------
\* Listing

\* .order("created_at", desc=True): the rows, latest created_at first
RECURSIVE order_desc(_)
order_desc(rows) ==
    IF rows = {} THEN <<>>
    ELSE LET r == CHOOSE x \in rows : \A y \in rows : y.created_at <= x.created_at
         IN  <<r>> \o order_desc(rows \ {r})

\* get_recipes_from_supabase: raises on a failed select, else `response.data or []`
get_recipes_from_supabase(table, outcome) ==
    [raised |-> outcome = "raise" \/ outcome = "error_attr",
     data |-> IF outcome = "ok"
              THEN order_desc({table[i] : i \in 1..Len(table)})
              ELSE <<>>]

-----------------------------------------------------------------------------
\* Image submission: the pure parts of the handler

\* TESSERACT_AVAILABLE: the boot-time check of cookbook_site.py
\* (streamlit_cookbook.py has no such flag and always calls the engine)
TESSERACT_AVAILABLE == tesseract_installed

\* what the engine can do in this environment: without the binary,
\* image_to_string raises TesseractNotFoundError
EngineOutcomes ==
    IF tesseract_installed THEN OcrOutcomes
    ELSE {[raises |-> TRUE, text |-> <<>>]}

\* ocr_image returning the error message as the text when the engine raises
ocr_image_mut(rev, available, engine) ==
    IF rev = "cookbook_site" /\ ~available
    THEN [text |-> "OCR failed: Tesseract not found on the system.", error |-> FALSE]
    ELSE IF engine.raises
    THEN [text |-> "OCR execution error", error |-> TRUE]
    ELSE [text |-> Join(strip(engine.text)), error |-> FALSE]

\* ocr_image: the returned str, and whether st.error was called
ocr_image(rev, available, engine) ==
    IF rev = "cookbook_site" /\ ~available
    THEN [text |-> "OCR failed: Tesseract not found on the system.", error |-> FALSE]
    ELSE IF engine.raises
    THEN [text |-> "", error |-> TRUE]
    ELSE [text |-> Join(strip(engine.text)), error |-> FALSE]

\* does the handler call ocr_image at all
ocr_called(rev, available) == rev = "streamlit_cookbook" \/ available

\* st.text_area(value=..., key=...): a widget whose key has a value in the
\* widget state the frontend sent returns that value, any other returns
\* its default `value`
st_text_area(value, key, widget_state) ==
    IF key \in DOMAIN widget_state THEN widget_state[key] ELSE value

\* combined_text with the notes block on the line after the text
combined_text_mut(rev, text, notes) ==
    LET ocr_label == IF rev = "cookbook_site" THEN "Recipe Details/OCR Text:\n"
                     ELSE "OCR text:\n"
        notes_label == IF rev = "cookbook_site" THEN "User Notes:\n" ELSE "Notes:\n"
        first == IF text # "" THEN ocr_label \o text \o "\n" ELSE ""
    IN  IF notes # "" THEN first \o notes_label \o notes ELSE first

\* combined_text as the handler builds it
combined_text(rev, text, notes) ==
    LET ocr_label == IF rev = "cookbook_site" THEN "Recipe Details/OCR Text:\n"
                     ELSE "OCR text:\n"
        notes_label == IF rev = "cookbook_site" THEN "User Notes:\n" ELSE "Notes:\n"
        first == IF text # "" THEN ocr_label \o text \o "\n\n" ELSE ""
    IN  IF notes # "" THEN first \o notes_label \o notes ELSE first

\* file_ext: the last "."-part of the name, lower-cased; the default for
\* anything but png/jpg/jpeg is "jpg" in cookbook_site.py, "png" before
file_ext(rev, file) ==
    LET ext == lower(file.parts[Len(file.parts)])
    IN  IF ext \in {"png", "jpg", "jpeg"} THEN ext
        ELSE IF rev = "cookbook_site" THEN "jpg" ELSE "png"

\* path = f"recipes/{uuid.uuid4()}.{file_ext}"
storage_path(uuid, ext) == <<"recipes/", uuid, ".", ext>>

\* supabase.storage.from_(BUCKET_NAME).get_public_url(path)
get_public_url(path) == <<"public_url", path>>

\* upload_image_to_storage(file) for a file that is not None:
\*   url     the return value (None, or the public URL)
\*   raised  the call raised instead of returning
\*   error   st.error was called inside
\* cookbook_site.py wraps upload and get_public_url in try/except and does
\* not look at upload's return value; streamlit_cookbook.py looks for a
\* returned dict with "error" and catches nothing.
upload_image_to_storage(rev, file, uuid, outcome) ==
    LET path == storage_path(uuid, file_ext(rev, file))
        url == Some(get_public_url(path))
    IN  IF rev = "cookbook_site"
        THEN IF outcome = "raise"
             THEN [path |-> path, url |-> None, raised |-> FALSE, error |-> TRUE]
             ELSE [path |-> path, url |-> url, raised |-> FALSE, error |-> FALSE]
        ELSE IF outcome = "raise"
             THEN [path |-> path, url |-> None, raised |-> TRUE, error |-> FALSE]
             ELSE IF outcome = "error_dict"
             THEN [path |-> path, url |-> None, raised |-> FALSE, error |-> TRUE]
             ELSE [path |-> path, url |-> url, raised |-> FALSE, error |-> FALSE]

\* The Blob Store's upload: on success the object is stored under the path
bucket_upload(bucket, path, file, ext, outcome) ==
    IF outcome = "ok"
    THEN bucket \cup {[path |-> path, bytes |-> file.bytes,
                       content_type |-> "image/" \o ext]}
    ELSE bucket

\* the validation of the image handler forgotten
image_missing_mut(uploaded_img) == FALSE

\* `uploaded_img is None`, the image handler's validation
image_missing(uploaded_img) == uploaded_img = None

\* Image.open(uploaded_img): TRUE when it returns an image, FALSE when it
\* raises, as it does for a file it cannot decode and for None
ImageOpenOutcomes(uploaded_img) == IF uploaded_img = None THEN {FALSE} ELSE BOOLEAN

\* the save call of the image handler without the image_url
image_recipe_mut(name_img, short_desc_img, combined, image_url) ==
    recipe_data(or_default(name_img, "Untitled recipe"), or_None(short_desc_img),
                or_None(combined), None)

\* the arguments of the image handler's save_recipe_to_supabase call
image_recipe(name_img, short_desc_img, combined, image_url) ==
    recipe_data(or_default(name_img, "Untitled recipe"), or_None(short_desc_img),
                or_None(combined), image_url)

-----------------------------------------------------------------------------
\* Page runs

IsSite == revision = "cookbook_site"

\* st.warning at boot when the tesseract check fails (cookbook_site.py only)
BootMsgs == IF IsSite /\ ~TESSERACT_AVAILABLE THEN <<"ocr_disabled_warning">> ELSE <<>>

\* st.warning at the top of the image tab (cookbook_site.py only)
TabImageMsgs ==
    IF IsSite /\ ~TESSERACT_AVAILABLE THEN <<"ocr_unavailable_warning">> ELSE <<>>

\* the widget state the frontend may send with a run: nothing, or what the
\* user typed into the editable text area that is on screen
WidgetStates ==
    {<<>>} \cup (IF editor = None THEN {}
                 ELSE {editor[1].key :> e : e \in EditTexts \ {editor[1].value}})

\* the end of a page run
EndRun(sub, inp, loc, cs, ms, table, bucket, uuid, ed, stop) ==
    /\ submitted' = sub
    /\ inputs' = inp
    /\ locals' = loc
    /\ calls' = cs
    /\ msgs' = ms
    /\ recipes' = table
    /\ blobs' = bucket
    /\ uuid_next' = uuid
    /\ editor' = ed
    /\ halted' = stop
    /\ runs' = runs + 1
    /\ UNCHANGED <<revision, tesseract_installed>>

\* the list tab, which ends every run that st.stop() has not halted
ListTab(sub, inp, loc, cs, ms, table, bucket, uuid, ed) ==
    \E sel \in DbOutcomes :
        LET r == get_recipes_from_supabase(table, sel)
            list_msgs == IF r.raised THEN <<"load_error", "no_recipes">>
                         ELSE IF r.data = <<>> THEN <<"no_recipes">>
                         ELSE <<>>
        IN  EndRun(sub, inp, loc,
                   Append(cs, [op |-> "select", raised |-> r.raised, data |-> r.data]),
                   ms \o list_msgs, table, bucket, uuid, ed, FALSE)

\* a run with the text form submitted
TextSubmit ==
    /\ runs < MaxRuns
    /\ \E name \in Names, short_desc \in Descriptions,
          ingredients \in IngredientTexts, instructions \in InstructionTexts :
        LET inp == [name |-> name, short_desc |-> short_desc,
                    ingredients |-> ingredients, instructions |-> instructions]
        IN  IF text_invalid(name, ingredients, instructions)
            THEN ListTab("text", inp, None, <<>>,
                         BootMsgs \o <<"validation_error">> \o TabImageMsgs,
                         recipes, blobs, uuid_next, None)
            ELSE \E ins \in DbOutcomes :
                LET data == text_recipe(name, short_desc, ingredients, instructions)
                IN  ListTab("text", inp,
                            Some([full_text |-> full_text(ingredients, instructions)]),
                            <<[op |-> "insert", data |-> data, outcome |-> ins]>>,
                            BootMsgs
                              \o (IF save_raises(ins) THEN <<"save_error">>
                                  ELSE <<"success">>)
                              \o TabImageMsgs,
                            table_insert(recipes, data, ins), blobs, uuid_next, None)

\* the image handler from the preview on, for an image that decoded
ImageHandler(inp, file, ws) ==
    \E engine \in EngineOutcomes :
        LET called == ocr_called(revision, TESSERACT_AVAILABLE)
            ocr == ocr_image(revision, TESSERACT_AVAILABLE, engine)
            ocr_text == IF called THEN ocr.text ELSE ""
            ocr_calls == IF called THEN <<[op |-> "ocr", outcome |-> engine]>> ELSE <<>>
            ocr_msgs == (IF called /\ ocr.error THEN <<"ocr_error">> ELSE <<>>)
                          \o (IF IsSite /\ ocr_text = "" THEN <<"ocr_empty_warning">>
                              ELSE <<>>)
            initial_text == ocr_text
            key == uuid_next
            edited_text == IF IsSite THEN st_text_area(initial_text, key, ws)
                           ELSE ocr_text
            combined == combined_text(revision, edited_text, inp.notes)
            uuid == IF IsSite THEN uuid_next + 1 ELSE uuid_next
            loc == [ocr_text |-> ocr_text, edited_text |-> edited_text,
                    combined_text |-> combined]
            pre == BootMsgs \o TabImageMsgs \o ocr_msgs
            Editor(row) == IF IsSite
                           THEN Some([key |-> key, value |-> initial_text,
                                      notes |-> inp.notes, committed |-> row])
                           ELSE None
        IN  \E up \in UploadOutcomes :
            LET u == upload_image_to_storage(revision, file, uuid, up)
                bucket == bucket_upload(blobs, u.path, file, file_ext(revision, file), up)
                up_call == [op |-> "upload", path |-> u.path, outcome |-> up]
                up_msgs == IF u.error THEN <<"upload_error">> ELSE <<>>
            IN  IF u.raised
                THEN ListTab("image", inp, Some(loc), Append(ocr_calls, up_call),
                             pre \o <<"fatal_error">>,
                             recipes, bucket, uuid + 1, Editor(None))
                ELSE IF u.url = None
                THEN ListTab("image", inp, Some(loc), Append(ocr_calls, up_call),
                             pre \o up_msgs \o <<"upload_failed">>,
                             recipes, bucket, uuid + 1, Editor(None))
                ELSE \E ins \in DbOutcomes :
                    LET data == image_recipe(inp.name_img, inp.short_desc_img,
                                             combined, u.url)
                        table == table_insert(recipes, data, ins)
                    IN  ListTab("image", inp, Some(loc),
                                ocr_calls \o <<up_call,
                                    [op |-> "insert", data |-> data, outcome |-> ins]>>,
                                pre \o up_msgs
                                  \o (IF save_raises(ins) THEN <<"fatal_error">>
                                      ELSE <<"success">>),
                                table, bucket, uuid + 1,
                                Editor(IF ins = "ok" THEN Some(Len(table)) ELSE None))

\* a run with the image form submitted
ImageSubmit ==
    /\ runs < MaxRuns
    /\ \E form \in ImageForms, ws \in WidgetStates :
        LET uploaded_img == form.uploaded_img
            inp == [name_img |-> form.name_img, short_desc_img |-> form.short_desc_img,
                    notes |-> form.notes, uploaded_img |-> uploaded_img,
                    widget_state |-> ws, on_screen |-> editor]
        IN  IF image_missing(uploaded_img)
            THEN IF IsSite
                 THEN EndRun("image", inp, None, <<>>,
                             BootMsgs \o TabImageMsgs \o <<"validation_error">>,
                             recipes, blobs, uuid_next, None, TRUE)
                 ELSE ListTab("image", inp, None, <<>>,
                              BootMsgs \o TabImageMsgs \o <<"validation_error">>,
                              recipes, blobs, uuid_next, None)
            ELSE \E decoded \in ImageOpenOutcomes(uploaded_img) :
                IF decoded
                THEN ImageHandler(inp, uploaded_img[1], ws)
                ELSE ListTab("image", inp, None, <<>>,
                             BootMsgs \o TabImageMsgs \o <<"fatal_error">>,
                             recipes, blobs, uuid_next, None)

\* a run with no form submitted: a page load, or the rerun that an edit of
\* the text area on screen triggers
Rerun ==
    /\ runs < MaxRuns
    /\ \E ws \in WidgetStates :
        ListTab("none", [widget_state |-> ws, on_screen |-> editor], None, <<>>,
                BootMsgs \o TabImageMsgs, recipes, blobs, uuid_next, None)

Init ==
    /\ revision \in Revisions
    /\ tesseract_installed \in BOOLEAN
    /\ recipes = <<>>
    /\ blobs = {}
    /\ uuid_next = 0
    /\ editor = None
    /\ runs = 0
    /\ submitted = "none"
    /\ inputs = [widget_state |-> <<>>, on_screen |-> None]
    /\ locals = None
    /\ calls = <<>>
    /\ msgs = <<>>
    /\ halted = FALSE

Next == TextSubmit \/ ImageSubmit \/ Rerun

Spec == Init /\ [][Next]_vars

-----------------------------------------------------------------------------
\* Reading the last run

CallsOf(op) == SelectSeq(calls, LAMBDA c : c.op = op)
NumCalls(op) == Len(CallsOf(op))

\* the messages of the submission handlers (not the boot, tab and list ones)
HandlerMsgs ==
    SelectSeq(msgs, LAMBDA m : m \in {"validation_error", "save_error", "success",
                                      "fatal_error", "upload_error", "upload_failed",
                                      "ocr_error"})

\* position of the first call of an operation in the last run (0: none)
FirstCall(op) ==
    IF NumCalls(op) = 0 THEN 0
    ELSE CHOOSE i \in 1..Len(calls) :
            calls[i].op = op /\ \A j \in 1..(i - 1) : calls[j].op # op

TextRunInvalid ==
    /\ submitted = "text"
    /\ (inputs.name = "" \/ (inputs.ingredients = "" /\ inputs.instructions = ""))

TextRunValid ==
    /\ submitted = "text"
    /\ inputs.name # ""
    /\ (inputs.ingredients # "" \/ inputs.instructions # "")

-----------------------------------------------------------------------------
\* C1: a text submission with an empty name, or with ingredients and
\* instructions both empty, issues no Record Store insert and no Blob Store
\* upload, whatever the other fields hold; the handler reports a validation
\* error and nothing else.
C1_InvalidTextNoInsert ==
    TextRunInvalid =>
        /\ NumCalls("insert") = 0
        /\ NumCalls("upload") = 0
        /\ HandlerMsgs = <<"validation_error">>

\* an invalid text submission (name given, no ingredients, no instructions)
\* made when the table already holds a record
C1_Witness ==
    /\ TextRunInvalid
    /\ inputs.name # ""
    /\ inputs.short_desc # ""
    /\ Len(recipes) > 0

\* C2: an image submission with no uploaded image issues neither a Blob
\* Store upload nor a Record Store insert in that run.
C2_MissingImageNoCalls ==
    (submitted = "image" /\ inputs.uploaded_img = None) =>
        /\ NumCalls("upload") = 0
        /\ NumCalls("insert") = 0
        /\ HandlerMsgs = <<"validation_error">>

\* an image submission without an image, the other fields filled in
C2_Witness ==
    /\ submitted = "image"
    /\ inputs.uploaded_img = None
    /\ inputs.name_img # ""
    /\ inputs.notes # ""

\* C3: whenever the Blob Store upload fails (it raises, or returns an error
\* result) the image submission is aborted with a reported error and no
\* Record Store insert is issued; every insert of the image path follows an
\* upload that succeeded.
C3_UploadFailureAborts ==
    submitted = "image" =>
        /\ (\E i \in 1..Len(calls) : calls[i].op = "upload" /\ calls[i].outcome # "ok")
              => /\ NumCalls("insert") = 0
                 /\ \E i \in 1..Len(HandlerMsgs) :
                       HandlerMsgs[i] \in {"fatal_error", "upload_failed", "upload_error"}
        /\ NumCalls("insert") > 0
              => \E i \in 1..Len(calls) : calls[i].op = "upload" /\ calls[i].outcome = "ok"

\* C4: in every image submission the upload completes successfully before
\* the insert is issued, the inserted image_url is the public URL of the path
\* uploaded in that run, and so every stored record with an image_url refers
\* to a blob that is in the Blob Store.
C4_UploadBeforeInsert ==
    /\ (submitted = "image" /\ NumCalls("insert") > 0) =>
          LET i == FirstCall("insert")
              u == FirstCall("upload")
          IN  /\ 0 < u /\ u < i
              /\ calls[u].outcome = "ok"
              /\ calls[i].data.image_url = Some(<<"public_url", calls[u].path>>)
    /\ \A r \in 1..Len(recipes) :
          recipes[r].image_url # None =>
              \E b \in blobs : recipes[r].image_url = Some(<<"public_url", b.path>>)

\* the last run was an image submission whose upload succeeded and whose
\* insert then failed
UploadOkInsertFailed ==
    /\ submitted = "image"
    /\ NumCalls("upload") = 1 /\ CallsOf("upload")[1].outcome = "ok"
    /\ NumCalls("insert") = 1 /\ CallsOf("insert")[1].outcome # "ok"

\* C5: when the upload succeeds and the insert that follows fails, the run
\* reports the insert error (and no success), issues no call on the Blob
\* Store but the one upload (no delete, no compensation), adds no record, and
\* leaves the uploaded blob in storage with no record referring to it.
C5_InsertFailureOrphansBlob ==
    [][UploadOkInsertFailed' =>
          LET up == CallsOf("upload")'[1]
          IN  /\ HandlerMsgs'[Len(HandlerMsgs')] = "fatal_error"
              /\ \A i \in 1..Len(msgs') : msgs'[i] # "success"
              /\ \A i \in 1..Len(calls') : calls'[i].op \in {"ocr", "upload", "insert", "select"}
              /\ recipes' = recipes
              /\ \E b \in blobs' : b.path = up.path
              /\ ~ \E b \in blobs : b.path = up.path
              /\ blobs \subseteq blobs'
              /\ \A r \in 1..Len(recipes') :
                    recipes'[r].image_url # Some(<<"public_url", up.path>>)]_vars

\* an upload that succeeded followed by an insert whose response carries an
\* error, with a record already in the table
C5_Witness ==
    /\ UploadOkInsertFailed
    /\ CallsOf("insert")[1].outcome = "error_attr"
    /\ Len(recipes) > 0
    /\ blobs # {}

\* C6 (cookbook_site.py): when the caller overrides the extracted text that
\* was presented for edit, the body is composed from the edited text: the
\* record committed for that submission, and the record inserted by a run
\* that received the override, hold the edited text in their
\* "Recipe Details/OCR Text" block.
C6_EditedTextCommitted ==
    (IsSite /\ submitted \in {"none", "image"} /\ inputs.on_screen # None
       /\ DOMAIN inputs.widget_state # {}) =>
        LET shown == inputs.on_screen[1]
            edit == inputs.widget_state[shown.key]
            block(notes) ==
                (IF edit # "" THEN "Recipe Details/OCR Text:\n" \o edit \o "\n\n" ELSE "")
                  \o (IF notes # "" THEN "User Notes:\n" \o notes ELSE "")
            body(notes) == IF block(notes) = "" THEN None ELSE Some(block(notes))
        IN  /\ (submitted = "none" /\ shown.committed # None) =>
                  recipes[shown.committed[1]].text = body(shown.notes)
            /\ (submitted = "image" /\ NumCalls("insert") > 0) =>
                  CallsOf("insert")[1].data.text = body(inputs.notes)

\* the OCR engine failed or is unavailable in the last image run
OcrFailedOrUnavailable ==
    /\ submitted = "image"
    /\ locals # None
    /\ \/ ~tesseract_installed
       \/ \E i \in 1..Len(calls) : calls[i].op = "ocr" /\ calls[i].outcome.raises

\* C7: on the image path an internal failure of the OCR engine, and OCR being
\* unavailable, give the empty extracted string and do not abort the
\* submission: the image is uploaded and, the upload having succeeded, the
\* record is inserted (with no OCR block in its text).
C7_OcrBestEffort ==
    OcrFailedOrUnavailable =>
        /\ locals[1].ocr_text = ""
        /\ NumCalls("upload") = 1
        /\ CallsOf("upload")[1].outcome = "ok" =>
              /\ NumCalls("insert") = 1
              /\ CallsOf("insert")[1].data.text =
                    (IF inputs.notes = "" THEN None
                     ELSE Some((IF IsSite THEN "User Notes:\n" ELSE "Notes:\n")
                                 \o inputs.notes))
              /\ CallsOf("insert")[1].outcome = "ok" =>
                    /\ recipes # <<>>
                    /\ recipes[Len(recipes)].image_url = CallsOf("insert")[1].data.image_url

\* the engine raised inside ocr_image and the record was inserted all the same
C7_Witness ==
    /\ OcrFailedOrUnavailable
    /\ tesseract_installed
    /\ NumCalls("ocr") = 1
    /\ NumCalls("insert") = 1 /\ CallsOf("insert")[1].outcome = "ok"
    /\ inputs.notes # ""

\* C8: every record in the Record Store has a non-empty text or a non-empty
\* image_url: the text path inserts a non-empty text and no image_url, the
\* image path inserts a non-empty image_url (its text may be absent).
C8_TextOrImage ==
    /\ \A r \in 1..Len(recipes) :
          \/ recipes[r].text # None /\ recipes[r].text # Some("")
          \/ recipes[r].image_url # None /\ recipes[r].image_url # Some("")
    /\ \A i \in 1..Len(calls) :
          calls[i].op = "insert" =>
              IF submitted = "text"
              THEN /\ calls[i].data.text # None /\ calls[i].data.text # Some("")
                   /\ calls[i].data.image_url = None
              ELSE calls[i].data.image_url # None /\ calls[i].data.image_url # Some("")

\* the table holds a text-path record and an image-path record without text
C8_Witness ==
    /\ Len(recipes) = 2
    /\ \E r \in 1..Len(recipes) : recipes[r].image_url = None
    /\ \E r \in 1..Len(recipes) : recipes[r].text = None

\* C9 (cookbook_site.py): the text inserted by the image path, for edited
\* text t and notes n, is "Recipe Details/OCR Text:\n{t}\n\n" followed by
\* "User Notes:\n{n}" when both are non-empty, the first block alone when n
\* is empty, "User Notes:\n{n}" alone when t is empty, and None (never "")
\* when both are empty.
C9_ImageBody ==
    (IsSite /\ submitted = "image" /\ NumCalls("insert") > 0) =>
        LET t == locals[1].edited_text
            n == inputs.notes
            text == CallsOf("insert")[1].data.text
        IN  /\ (t # "" /\ n # "") =>
                  text = Some("Recipe Details/OCR Text:\n" \o t \o "\n\n"
                                \o "User Notes:\n" \o n)
            /\ (t # "" /\ n = "") =>
                  text = Some("Recipe Details/OCR Text:\n" \o t \o "\n\n")
            /\ (t = "" /\ n # "") => text = Some("User Notes:\n" \o n)
            /\ (t = "" /\ n = "") => text = None
            /\ text # Some("")

\* an image record inserted with both an OCR block and a notes block
C9_Witness ==
    /\ IsSite /\ submitted = "image"
    /\ NumCalls("insert") = 1 /\ CallsOf("insert")[1].outcome = "ok"
    /\ locals[1].edited_text = "2 eggs"
    /\ inputs.notes = "salt to taste"

\* C10: a valid text submission (name given, ingredients or instructions
\* given) issues exactly one insert, also when it fails, with text
\* "Ingredients:\n{ingredients}\n\nInstructions:\n{instructions}", no
\* image_url, the name as given and the description short_desc or None.
C10_ValidTextOneInsert ==
    TextRunValid =>
        /\ NumCalls("insert") = 1
        /\ NumCalls("upload") = 0
        /\ CallsOf("insert")[1].data =
              [name |-> inputs.name,
               description |-> IF inputs.short_desc = "" THEN None
                               ELSE Some(inputs.short_desc),
               text |-> Some("Ingredients:\n" \o inputs.ingredients
                               \o "\n\nInstructions:\n" \o inputs.instructions),
               image_url |-> None]
        /\ CallsOf("insert")[1].outcome = "ok" =>
              /\ recipes # <<>>
              /\ recipes[Len(recipes)].text = CallsOf("insert")[1].data.text
              /\ recipes[Len(recipes)].name = inputs.name

\* a valid text submission with no instructions and no description whose
\* one insert failed
C10_Witness ==
    /\ TextRunValid
    /\ inputs.instructions = "" /\ inputs.short_desc = ""
    /\ NumCalls("insert") = 1 /\ CallsOf("insert")[1].outcome = "raise"

-----------------------------------------------------------------------------
\* the last run's one listing fetch comes after every other call of the run
ListingFetchedLast ==
    /\ ~halted
    /\ NumCalls("select") = 1
    /\ calls[Len(calls)].op = "select"

\* the last run inserted a record
InsertedInRun ==
    \E i \in 1..Len(calls) : calls[i].op = "insert" /\ calls[i].outcome = "ok"

\* the listing the last run fetched holds the record the run inserted, first
InsertedRowListed ==
    LET listing == calls[Len(calls)].data
    IN  /\ listing # <<>>
        /\ listing[1] = recipes[Len(recipes)]
        /\ listing[1].name = CallsOf("insert")[1].data.name
        /\ listing[1].image_url = CallsOf("insert")[1].data.image_url

\* the listing the last run fetched is the whole table, latest created_at first
ListingIsTableDesc ==
    LET listing == calls[Len(calls)].data
    IN  /\ Len(listing) = Len(recipes)
        /\ \A r \in 1..Len(recipes) : \E i \in 1..Len(listing) : listing[i] = recipes[r]
        /\ \A i \in 1..Len(listing) : \A j \in 1..Len(listing) :
              i < j => listing[i].created_at > listing[j].created_at

\* the image form of cookbook_site.py was submitted without an image
SiteImageRunWithoutImage ==
    IsSite /\ submitted = "image" /\ inputs.uploaded_img = None

=============================================================================
